---- MODULE Spec2Model ----
(***************************************************************************)
(* Model of the 3ds Max import/export add-on (src/__init__.py).            *)
(*                                                                         *)
(* The host scene, the files the operators create, the operator in        *)
(* progress and the external process it waits for are the state.  One     *)
(* operation (ImportMax.execute or ExportMax.execute) runs per behaviour:  *)
(* its part up to subprocess.run, the external process (the generated     *)
(* script, or whatever executable the preference names), and its part     *)
(* after subprocess.run returns.                                           *)
(***************************************************************************)
EXTENDS Integers, FiniteSets, Sequences, TLC

(* ------------------------------ bounds --------------------------------- *)

\* objects in the scene before the operation
MaxPre == 2
\* objects an interchange file can hold
MaxBatch == 5
\* seconds of waiting modelled by one Tick
TickSeconds == 150
\* extensions the file name given to an export can carry
MaxExts == 2

(* ------------------------- program constants --------------------------- *)

\* subprocess.run(..., timeout=300) in the generated scripts
TimeoutSeconds == 300

(* --------------------------- the host scene ---------------------------- *)

Pre == 1..MaxPre
Pool == (MaxPre + 1)..(MaxPre + MaxBatch)
ObjIds == Pre \cup Pool

\* obj.type values the code tests, then the two categories it never tests
Categories == <<"MESH", "LIGHT", "CAMERA", "ARMATURE", "EMPTY", "CURVE", "OTHER">>

\* position of an object in its population (scene before / interchange file)
IndexOf(o) == IF o \in Pre THEN o ELSE o - MaxPre

\* obj.type: fixed per object identifier, cycling through the categories
TypeOf(o) == Categories[((IndexOf(o) - 1) % Len(Categories)) + 1]

\* hasattr(obj.data, 'materials'): object data that carries material slots
HasMaterialData(o) == TypeOf(o) \in {"MESH", "CURVE", "OTHER"}

\* the animation data an object arrives with (every other object is animated)
AnimOf(o) == IndexOf(o) % 2 = 1

\* the material slots an object arrives with
MatsOf(o) == HasMaterialData(o) /\ ((IndexOf(o) - 1) \div Len(Categories)) % 2 = 0

\* an object as the host creates it
NewObject(o) ==
    [st |-> "live", anim |-> AnimOf(o), mats |-> MatsOf(o),
     rot |-> "orig", scl |-> "orig", sel |-> FALSE]

\* an identifier the scene does not hold yet
NoObject ==
    [st |-> "absent", anim |-> FALSE, mats |-> FALSE,
     rot |-> "orig", scl |-> "orig", sel |-> FALSE]

\* bpy.context.scene.objects
SceneObjects(sc) == {o \in DOMAIN sc : sc[o].st = "live"}

\* bpy.context.selected_objects
SelectedObjects(sc) == {o \in DOMAIN sc : sc[o].st = "live" /\ sc[o].sel}

\* bpy.ops.object.select_all(action='DESELECT')
DeselectAll(sc) == [o \in DOMAIN sc |-> [sc[o] EXCEPT !.sel = FALSE]]

\* obj.select_set(True) for every obj of S
SelectSet(sc, S) ==
    [o \in DOMAIN sc |-> IF o \in S THEN [sc[o] EXCEPT !.sel = TRUE] ELSE sc[o]]

\* bpy.ops.object.delete(): every selected object leaves the scene; an
\* object with no other user, as an imported one is, is freed by the host,
\* and a Python reference kept to it raises ReferenceError on access
DeleteSelected(sc) ==
    [o \in DOMAIN sc |->
        IF sc[o].st = "live" /\ sc[o].sel
        THEN [sc[o] EXCEPT !.st = "freed", !.sel = FALSE]
        ELSE sc[o]]

(* --------------------- retention configuration ------------------------ *)

ImportConfigs ==
    [models : BOOLEAN, lights : BOOLEAN, cameras : BOOLEAN, splines : BOOLEAN,
     animations : BOOLEAN, materials : BOOLEAN, armatures : BOOLEAN,
     rotation : BOOLEAN, scale : BOOLEAN]

ExportConfigs ==
    [models : BOOLEAN, lights : BOOLEAN, cameras : BOOLEAN, splines : BOOLEAN,
     animations : BOOLEAN, selection : BOOLEAN]

\* the operator properties before any operator has run
NoImportConfig ==
    [models |-> TRUE, lights |-> TRUE, cameras |-> TRUE, splines |-> TRUE,
     animations |-> TRUE, materials |-> TRUE, armatures |-> TRUE,
     rotation |-> FALSE, scale |-> FALSE]

NoExportConfig ==
    [models |-> TRUE, lights |-> TRUE, cameras |-> TRUE, splines |-> TRUE,
     animations |-> TRUE, selection |-> FALSE]

(* ------------------ asset filtering (ImportMax) ------------------------ *)

\* references of a Python set whose object the host has freed: reading
\* obj.name on one raises ReferenceError
DeadReferences(sc, objects) == {o \in objects : sc[o].st = "freed"}

\* mutant: every object of the scene of the type is matched, in the batch or not
FilterObjectsByTypeWholeScene(sc, objects, objType, keep) ==
    LET cleared == DeselectAll(sc)
        targeted == {o \in DOMAIN sc : sc[o].st = "live" /\ TypeOf(o) = objType}
    IN  IF DeadReferences(sc, objects) # {}
        THEN [raised |-> TRUE, sc |-> cleared, result |-> {}, partial |-> targeted]
        ELSE IF ~keep /\ targeted # {}
        THEN [raised |-> FALSE, sc |-> DeleteSelected(SelectSet(cleared, targeted)),
              result |-> targeted, partial |-> {}]
        ELSE [raised |-> FALSE, sc |-> cleared, result |-> {}, partial |-> {}]

\* ImportMax._filter_objects_by_type.  raised: an exception left the loop;
\* partial: the objects the loop may have selected before it raised
FilterObjectsByType(sc, objects, objType, keep) ==
    LET cleared == DeselectAll(sc)
        targeted == {o \in objects : sc[o].st = "live" /\ TypeOf(o) = objType}
    IN  IF DeadReferences(sc, objects) # {}
        THEN [raised |-> TRUE, sc |-> cleared, result |-> {}, partial |-> targeted]
        ELSE IF ~keep /\ targeted # {}
        THEN [raised |-> FALSE, sc |-> DeleteSelected(SelectSet(cleared, targeted)),
              result |-> targeted, partial |-> {}]
        ELSE [raised |-> FALSE, sc |-> cleared, result |-> {}, partial |-> {}]

\* mutant: the loop that clears the animation data is left out
FilterAnimationsSkipsClear(sc, objects, keep) == [raised |-> FALSE, sc |-> sc]

\* ImportMax._filter_animations_from_objects
FilterAnimationsFromObjects(sc, objects, keep) ==
    IF keep THEN [raised |-> FALSE, sc |-> sc]
    ELSE IF DeadReferences(sc, objects) # {} THEN [raised |-> TRUE, sc |-> sc]
    ELSE [raised |-> FALSE,
          sc |-> [o \in DOMAIN sc |->
                    IF o \in objects /\ sc[o].st = "live" /\ sc[o].anim
                    THEN [sc[o] EXCEPT !.anim = FALSE] ELSE sc[o]]]

\* mutant: the loop that clears the material slots is left out
FilterMaterialsKeepsSlots(sc, objects, keep) == [raised |-> FALSE, sc |-> sc]

\* ImportMax._filter_materials_from_objects
FilterMaterialsFromObjects(sc, objects, keep) ==
    IF keep THEN [raised |-> FALSE, sc |-> sc]
    ELSE IF DeadReferences(sc, objects) # {} THEN [raised |-> TRUE, sc |-> sc]
    ELSE [raised |-> FALSE,
          sc |-> [o \in DOMAIN sc |->
                    IF o \in objects /\ sc[o].st = "live" /\ HasMaterialData(o)
                       /\ sc[o].mats
                    THEN [sc[o] EXCEPT !.mats = FALSE] ELSE sc[o]]]

\* mutant: the rotation is applied whatever apply_rotation says
ApplyRotationAlways(sc, objects, c) ==
    [o \in DOMAIN sc |->
        IF o \in objects THEN [sc[o] EXCEPT !.rot = "rot180"] ELSE sc[o]]

\* mutant: the half turn is added to the rotation the object has
ApplyRotationAdds(sc, objects, c) ==
    [o \in DOMAIN sc |->
        IF c.rotation /\ o \in objects
        THEN [sc[o] EXCEPT !.rot = IF @ = "orig" THEN "rot180" ELSE "rot360"]
        ELSE sc[o]]

\* execute, lines 731-741: the corrective transform on every imported object
ApplyRotation(sc, objects, c) ==
    [o \in DOMAIN sc |->
        IF c.rotation /\ o \in objects THEN [sc[o] EXCEPT !.rot = "rot180"] ELSE sc[o]]

\* mutant: the scale is applied whatever apply_scale says
ApplyScaleAlways(sc, objects, c) ==
    [o \in DOMAIN sc |->
        IF o \in objects THEN [sc[o] EXCEPT !.scl = "s001"] ELSE sc[o]]

ApplyScale(sc, objects, c) ==
    [o \in DOMAIN sc |->
        IF c.scale /\ o \in objects THEN [sc[o] EXCEPT !.scl = "s001"] ELSE sc[o]]

\* mutant: the armatures are deleted with the models
DeletionOrderArmaturesWithModels(c) ==
    SelectSeq(<<"MESH", "LIGHT", "CAMERA", "CURVE", "ARMATURE">>,
              LAMBDA t : \/ t = "MESH" /\ ~c.models
                         \/ t = "LIGHT" /\ ~c.lights
                         \/ t = "CAMERA" /\ ~c.cameras
                         \/ t = "CURVE" /\ ~c.splines
                         \/ t = "ARMATURE" /\ (~c.armatures \/ ~c.models))

\* mutant: the lights are deleted on the models flag
DeletionOrderLightsByModels(c) ==
    SelectSeq(<<"MESH", "LIGHT", "CAMERA", "CURVE", "ARMATURE">>,
              LAMBDA t : \/ t = "MESH" /\ ~c.models
                         \/ t = "LIGHT" /\ ~c.models
                         \/ t = "CAMERA" /\ ~c.cameras
                         \/ t = "CURVE" /\ ~c.splines
                         \/ t = "ARMATURE" /\ ~c.armatures)

\* execute, lines 746-757: the categories deleted, in the order of the code
DeletionOrder(c) ==
    SelectSeq(<<"MESH", "LIGHT", "CAMERA", "CURVE", "ARMATURE">>,
              LAMBDA t : \/ t = "MESH" /\ ~c.models
                         \/ t = "LIGHT" /\ ~c.lights
                         \/ t = "CAMERA" /\ ~c.cameras
                         \/ t = "CURVE" /\ ~c.splines
                         \/ t = "ARMATURE" /\ ~c.armatures)

\* one call of _filter_objects_by_type and the update of processed_for_deletion
DeletionStep(p, objects, objType) ==
    IF p.raised THEN p
    ELSE LET r == FilterObjectsByType(p.sc, objects, objType, FALSE)
         IN  [raised |-> r.raised, sc |-> r.sc,
              removed |-> p.removed \cup r.result, partial |-> r.partial]

RECURSIVE DeletionSteps(_, _, _)
DeletionSteps(p, objects, order) ==
    IF order = <<>> THEN p
    ELSE DeletionSteps(DeletionStep(p, objects, Head(order)), objects, Tail(order))

\* execute, lines 722-765: everything done to a non-empty import batch
FilterPipeline(sc, imported, c) ==
    LET selected == SelectSet(DeselectAll(sc), imported)
        moved == ApplyScale(ApplyRotation(selected, imported, c), imported, c)
        start == [raised |-> FALSE, sc |-> DeselectAll(moved),
                  removed |-> {}, partial |-> {}]
        del == DeletionSteps(start, imported, DeletionOrder(c))
        remaining == imported \ del.removed
        anim == IF ~del.raised /\ ~c.animations /\ remaining # {}
                THEN FilterAnimationsFromObjects(del.sc, remaining, FALSE)
                ELSE [raised |-> del.raised, sc |-> del.sc]
        mat == IF ~anim.raised /\ ~c.materials /\ remaining # {}
               THEN FilterMaterialsFromObjects(anim.sc, remaining, FALSE)
               ELSE anim
    IN  [raised |-> mat.raised, sc |-> mat.sc,
         removed |-> del.removed, partial |-> del.partial]

(* ------------------------------ state ---------------------------------- *)

VARIABLES
    objs,    \* the host's objects: scene membership, data, transform, selection
    active,  \* bpy.context.view_layer.objects.active (0: None)
    files,   \* the files the operators read and write
    op,      \* the operator in progress, its inputs and what it reported
    cfg,     \* ImportMax properties (the retention configuration)
    xcfg,    \* ExportMax properties
    ext      \* the external process started by subprocess.run

vars == <<objs, active, files, op, cfg, xcfg, ext>>

\* states of a file: absent, left by an earlier operation, zero bytes,
\* written whole by this operation's conversion, or cut short by a kill
FileStates == {"absent", "stale", "empty", "fresh", "partial"}

\* os.path.exists(f) and os.path.getsize(f) > 0
ExistsNonEmpty(f) == f \in {"stale", "fresh", "partial"}

NoExt == [st |-> "none", elapsed |-> 0, rc |-> 0]

NoOp ==
    [kind |-> "none", pc |-> "idle", result |-> "none", path |-> "none",
     exe |-> "none", spawned |-> 0, imported |-> {}, removed |-> {},
     consumed |-> "none", reports |-> <<>>, origSel |-> {}, origActive |-> 0,
     exported |-> {}, final |-> <<>>]

\* self.report({level}, text); log: the text points to log_file
Report(level, log) == [level |-> level, log |-> log]

\* the operator returns
Return(o, result, report) ==
    [o EXCEPT !.pc = "done", !.result = result, !.reports = Append(@, report)]

\* before the operation: the scene holds the objects of Pre; the first k of
\* them are selected and the last selected one is active; the cache folder
\* may hold the interchange file an earlier operation left there, whole or
\* with zero bytes (execute removes it at line 770 only)
Init ==
    /\ \E k \in 0..MaxPre :
          /\ objs = [o \in ObjIds |->
                      IF o \in Pre THEN [NewObject(o) EXCEPT !.sel = (o <= k)]
                      ELSE NoObject]
          /\ active = k
    /\ files \in [fbx : {"absent", "stale", "empty"}, script : {FALSE}, tmpdir : {FALSE},
                  tmpfbx : {"absent"}, tmpscript : {FALSE}, target : {"absent"}]
    /\ op = NoOp
    /\ cfg = NoImportConfig
    /\ xcfg = NoExportConfig
    /\ ext = NoExt

(* ------------------------- ImportMax.execute --------------------------- *)

\* mutant: the return code of the process is not looked at
ReturnCodeIgnored(rc) == FALSE

\* result.returncode != 0: lines 674 (import) and 471 (export)
ReturnCodeFailed(rc) == rc # 0

\* execute, lines 618-682: up to the moment subprocess.run waits
ImportSteps(path, exe, spawnFails) ==
    /\ LET o == [op EXCEPT !.kind = "import", !.path = path, !.exe = exe]
       IN  IF path \in {"empty", "not_max"}
           THEN /\ op' = Return(o, "CANCELLED", Report("ERROR", FALSE))
                /\ UNCHANGED <<files, ext>>
           ELSE IF exe # "exists"
           THEN /\ op' = Return(o, "CANCELLED", Report("ERROR", FALSE))
                /\ UNCHANGED <<files, ext>>
           ELSE /\ files' = [files EXCEPT !.script = TRUE]
                /\ IF spawnFails
                   THEN /\ op' = Return(o, "CANCELLED", Report("ERROR", TRUE))
                        /\ UNCHANGED ext
                   ELSE /\ op' = [o EXCEPT !.pc = "waiting", !.spawned = @ + 1]
                        /\ ext' = [NoExt EXCEPT !.st = "started"]
    /\ UNCHANGED <<objs, active, cfg, xcfg>>

\* bpy.ops.import_scene.fbx: the objects of the file join the scene
ImportFbx(sc, contents) ==
    [o \in DOMAIN sc |-> IF o \in contents THEN NewObject(o) ELSE sc[o]]

\* mutant: every object of the scene is taken for the import batch
ImportBatchWholeScene(after, existing) == SceneObjects(after)

\* execute, line 719: the objects whose name is not in the snapshot of line 694
ImportBatch(after, existing) == SceneObjects(after) \ existing

\* execute, lines 689-779: the interchange file is imported and the import
\* batch filtered.  c: the operator's properties, read from line 704 on;
\* contents: the objects the file holds
ImportAndFilter(c, contents) ==
    LET existing == SceneObjects(objs)
        after == ImportFbx(DeselectAll(objs), contents)
        imported == ImportBatch(after, existing)
        o == [op EXCEPT !.imported = imported, !.consumed = files.fbx]
    IN  /\ cfg' = c
        /\ IF imported = {}
           THEN /\ objs' = DeselectAll(after)
                /\ files' = [files EXCEPT !.fbx = "absent"]
                /\ op' = Return(o, "FINISHED", Report("INFO", FALSE))
                /\ UNCHANGED active
           ELSE \E p \in {FilterPipeline(after, imported, c)} :  \* evaluated once
                /\ active' \in {IF p.sc[first].st = "live" THEN first ELSE 0 :
                                  first \in imported}
                /\ IF p.raised
                   THEN /\ \E sub \in SUBSET p.partial : objs' = SelectSet(p.sc, sub)
                        /\ op' = Return([o EXCEPT !.removed = p.removed],
                                        "CANCELLED", Report("ERROR", TRUE))
                        /\ UNCHANGED files
                   ELSE /\ objs' = DeselectAll(p.sc)
                        /\ files' = [files EXCEPT !.fbx = "absent"]
                        /\ op' = Return([o EXCEPT !.removed = p.removed],
                                        "FINISHED", Report("INFO", FALSE))

\* execute, lines 669-779: after subprocess.run has returned
ImportResume ==
    /\ op.kind = "import" /\ op.pc = "waiting" /\ ext.st = "exited"
    /\ UNCHANGED <<xcfg, ext>>
    /\ IF ReturnCodeFailed(ext.rc)
       THEN /\ op' = Return(op, "CANCELLED", Report("ERROR", TRUE))
            /\ UNCHANGED <<objs, active, files, cfg>>
       ELSE IF files.fbx = "absent"
       THEN /\ op' = Return(op, "CANCELLED", Report("ERROR", FALSE))
            /\ UNCHANGED <<objs, active, files, cfg>>
       ELSE \/ /\ op' = Return(op, "CANCELLED", Report("ERROR", TRUE))
               /\ objs' = DeselectAll(objs)
               /\ UNCHANGED <<active, files, cfg>>
            \/ /\ files.fbx # "empty"
               /\ \E c \in ImportConfigs, contents \in SUBSET Pool :
                     ImportAndFilter(c, contents)

\* ImportMax.execute is invoked with a file path, under a preference for the
\* executable; spawnFails: subprocess.run raises instead of starting a process
ImportBegin ==
    /\ op.pc = "idle"
    /\ \E path \in {"empty", "not_max", "max_missing", "max_exists"},
          exe \in {"unset", "missing", "exists"}, spawnFails \in BOOLEAN :
          ImportSteps(path, exe, spawnFails)

(* ------------------------- ExportMax.execute --------------------------- *)

\* a file name is the sequence of its parts between the dots: a stem, then
\* the extensions
Exts == {"max", "MAX", "fbx"}

RECURSIVE ExtSeqs(_)
ExtSeqs(n) ==
    IF n = 0 THEN {<<>>}
    ELSE ExtSeqs(n - 1) \cup {Append(e, x) : e \in ExtSeqs(n - 1), x \in Exts}

\* the file names the file browser can hand to ExportMax.execute
ExportPaths == {<<"scene">> \o e : e \in ExtSeqs(MaxExts)}

\* str.lower() of one part
Lower(x) == IF x = "MAX" THEN "max" ELSE x

\* p.lower().endswith('.max')
EndsWithMax(p) == Len(p) >= 2 /\ Lower(p[Len(p)]) = "max"

\* p.lower().endswith('.max.max')
EndsWithMaxMax(p) ==
    Len(p) >= 3 /\ Lower(p[Len(p)]) = "max" /\ Lower(p[Len(p) - 1]) = "max"

\* os.path.splitext(p)[0]
SplitExtBase(p) == IF Len(p) >= 2 THEN SubSeq(p, 1, Len(p) - 1) ELSE p

\* execute, lines 317-328: final_filepath.  os.path.normpath leaves a file
\* name as it is; final_filepath[:-4] drops the last '.max' in whatever case
\* and '.max' is appended to what is left
FinalFilepath(p) ==
    LET withExt == IF ~EndsWithMax(p) THEN Append(SplitExtBase(p), "max") ELSE p
    IN  IF EndsWithMaxMax(withExt)
        THEN Append(SubSeq(withExt, 1, Len(withExt) - 1), "max")
        ELSE withExt

\* mutant: an armature is exported with the models only
ShouldSelectArmatureOnModels(o, xc) ==
    \/ TypeOf(o) = "MESH" /\ xc.models
    \/ TypeOf(o) = "LIGHT" /\ xc.lights
    \/ TypeOf(o) = "CAMERA" /\ xc.cameras
    \/ TypeOf(o) = "CURVE" /\ xc.splines
    \/ TypeOf(o) = "ARMATURE" /\ xc.models

\* export_max, lines 367-371
ShouldSelect(o, xc) ==
    \/ TypeOf(o) = "MESH" /\ xc.models
    \/ TypeOf(o) = "LIGHT" /\ xc.lights
    \/ TypeOf(o) = "CAMERA" /\ xc.cameras
    \/ TypeOf(o) = "CURVE" /\ xc.splines
    \/ TypeOf(o) = "ARMATURE" /\ (xc.models \/ xc.animations)

\* export_max, lines 355-358: read after select_all(action='DESELECT')
SourceObjects(sc, xc, originalSelection) ==
    IF xc.selection
    THEN IF originalSelection # {} THEN SelectedObjects(sc) ELSE {}
    ELSE SceneObjects(sc)

\* export_max, lines 381-386 and 425-430
RestoreSelection(sc, originalSelection) ==
    SelectSet(DeselectAll(sc), originalSelection \cap SceneObjects(sc))

\* the with-block of export_max is left: the temporary directory is removed
RemoveTempDir(f) ==
    [f EXCEPT !.tmpdir = FALSE, !.tmpfbx = "absent", !.tmpscript = FALSE]

\* mutant: only the existence of the exported file is checked
FbxExportFailedIfMissing(fbxOut) == fbxOut = "absent"

\* export_max, line 432: not os.path.exists(fbx_path) or getsize(fbx_path) == 0
FbxExportFailed(fbxOut) == fbxOut \in {"absent", "empty"}

\* mutant: the count of matched objects is not looked at
NothingToExportIgnored(matched) == FALSE

\* export_max, line 377: export_objects_count == 0
NothingToExport(matched) == matched = {}

\* execute, lines 312-331, and export_max, lines 333-480, up to the moment
\* subprocess.run waits.  name: the file name given when path is not empty;
\* fbxOut: what bpy.ops.export_scene.fbx does
ExportSteps(xc, path, name, exe, fbxOut, spawnFails) ==
    /\ xcfg' = xc
    /\ LET o == [op EXCEPT !.kind = "export", !.path = path, !.exe = exe,
                           !.final = FinalFilepath(name),
                           !.origSel = SelectedObjects(objs), !.origActive = active]
           cleared == DeselectAll(objs)
           source == SourceObjects(cleared, xc, o.origSel)
           matched == {m \in source : ShouldSelect(m, xc)}
           chosen == SelectSet(cleared, matched)
       IN  IF path = "empty"
           THEN /\ op' = Return([op EXCEPT !.kind = "export", !.path = path, !.exe = exe],
                                "CANCELLED", Report("ERROR", FALSE))
                /\ UNCHANGED <<objs, files, ext>>
           ELSE IF exe # "exists"
           THEN /\ op' = Return([op EXCEPT !.kind = "export", !.path = path, !.exe = exe,
                                           !.final = FinalFilepath(name)],
                                "CANCELLED", Report("ERROR", FALSE))
                /\ UNCHANGED <<objs, files, ext>>
           ELSE IF NothingToExport(matched)
           THEN /\ op' = Return(o, "CANCELLED", Report("WARNING", FALSE))
                /\ objs' = RestoreSelection(chosen, o.origSel)
                /\ files' = RemoveTempDir(files)
                /\ UNCHANGED ext
           ELSE IF fbxOut = "raises"
           THEN /\ op' = Return(o, "CANCELLED", Report("ERROR", TRUE))
                /\ objs' = chosen
                /\ files' = RemoveTempDir(files)
                /\ UNCHANGED ext
           ELSE IF FbxExportFailed(fbxOut)
           THEN /\ op' = Return([o EXCEPT !.exported = matched],
                                "CANCELLED", Report("ERROR", TRUE))
                /\ objs' = RestoreSelection(chosen, o.origSel)
                /\ files' = RemoveTempDir(files)
                /\ UNCHANGED ext
           ELSE /\ objs' = RestoreSelection(chosen, o.origSel)
                /\ IF spawnFails
                   THEN /\ op' = Return([o EXCEPT !.exported = matched],
                                        "CANCELLED", Report("ERROR", TRUE))
                        /\ files' = RemoveTempDir(files)
                        /\ UNCHANGED ext
                   ELSE /\ op' = [o EXCEPT !.exported = matched, !.pc = "waiting",
                                           !.spawned = @ + 1]
                        /\ files' = [files EXCEPT !.tmpdir = TRUE, !.tmpscript = TRUE,
                                    !.tmpfbx = IF fbxOut = "valid" THEN "fresh"
                                               ELSE fbxOut]
                        /\ ext' = [NoExt EXCEPT !.st = "started"]
    /\ UNCHANGED <<active, cfg>>

\* ExportMax.execute is invoked with its properties and a file path
ExportBegin ==
    /\ op.pc = "idle"
    /\ \E xc \in ExportConfigs, path \in {"empty", "given"}, name \in ExportPaths,
          exe \in {"unset", "missing", "exists"},
          fbxOut \in {"raises", "absent", "empty", "valid"}, spawnFails \in BOOLEAN :
          ExportSteps(xc, path, name, exe, fbxOut, spawnFails)

\* export_max, lines 465-484: after subprocess.run has returned
ExportResume ==
    /\ op.kind = "export" /\ op.pc = "waiting" /\ ext.st = "exited"
    /\ files' = RemoveTempDir(files)
    /\ op' = IF ReturnCodeFailed(ext.rc)
             THEN Return(op, "CANCELLED", Report("ERROR", TRUE))
             ELSE Return(op, "FINISHED", Report("INFO", FALSE))
    /\ UNCHANGED <<objs, active, cfg, xcfg, ext>>

(* ----------------------- the external process -------------------------- *)

\* the file the conversion is asked to write: the interchange file of an
\* import (exportFile), the target file of an export (saveMaxFile)
OutputFile == IF op.kind = "import" THEN "fbx" ELSE "target"

\* what a run of 3dsmaxbatch leaves at the output path
Written(f, out) ==
    IF out = "none" THEN f
    ELSE IF out = "empty" THEN "empty"
    ELSE IF out = "partial" THEN "partial"
    ELSE "fresh"

WriteOutput(f, out) ==
    IF OutputFile = "fbx" THEN [f EXCEPT !.fbx = Written(@, out)]
    ELSE [f EXCEPT !.target = Written(@, out)]

\* sys.exit(rc) of the process subprocess.run waits for
Exit(rc) == [NoExt EXCEPT !.st = "exited", !.rc = rc]

\* the generated script up to its own subprocess.run: lines 844-877 (import)
\* and 506-540 (export)
ScriptStart(batchFound) ==
    /\ ext.st = "started"
    /\ ext' = IF op.kind = "import" /\ op.path = "max_missing" THEN Exit(1)
              ELSE IF ~batchFound THEN Exit(1)
              ELSE [ext EXCEPT !.st = "batch"]
    /\ UNCHANGED <<objs, active, files, op, cfg, xcfg>>

\* time passes while the script waits for 3dsmaxbatch
Tick ==
    /\ ext.st = "batch"
    /\ ext.elapsed < TimeoutSeconds
    /\ ext' = [ext EXCEPT !.elapsed = @ + TickSeconds]
    /\ UNCHANGED <<objs, active, files, op, cfg, xcfg>>

\* 3dsmaxbatch exits in time; the script checks the output file, lines
\* 886-891 (import) and 549-553 (export), and ends
BatchExit(out) ==
    /\ ext.st = "batch"
    /\ ext.elapsed < TimeoutSeconds
    /\ files' = WriteOutput(files, out)
    /\ ext' = IF ExistsNonEmpty(files'[OutputFile]) THEN Exit(0) ELSE Exit(1)
    /\ UNCHANGED <<objs, active, op, cfg, xcfg>>

\* subprocess.TimeoutExpired in the script: lines 899-901 and 561-563
BatchTimeout(out) ==
    /\ ext.st = "batch"
    /\ ext.elapsed >= TimeoutSeconds
    /\ files' = WriteOutput(files, out)
    /\ ext' = Exit(1)
    /\ UNCHANGED <<objs, active, op, cfg, xcfg>>

\* the executable named by the preference ends without running the script
\* to its end (lines 629 and 337 check only that the path exists)
ProcessEnds(rc) ==
    /\ ext.st = "started"
    /\ ext' = Exit(rc)
    /\ UNCHANGED <<objs, active, files, op, cfg, xcfg>>

\* the executable never exits: subprocess.run at lines 665 and 458 is called
\* without a timeout and goes on waiting
ProcessHangs ==
    /\ ext.st = "started"
    /\ ext' = [ext EXCEPT !.st = "hung"]
    /\ UNCHANGED <<objs, active, files, op, cfg, xcfg>>

(* --------------------------- specification ----------------------------- *)

Next ==
    \/ ImportBegin
    \/ ImportResume
    \/ ExportBegin
    \/ ExportResume
    \/ \E batchFound \in BOOLEAN : ScriptStart(batchFound)
    \/ Tick
    \/ \E out \in {"none", "empty", "valid"} : BatchExit(out)
    \/ \E out \in {"none", "partial"} : BatchTimeout(out)
    \/ \E rc \in {0, 2} : ProcessEnds(rc)
    \/ ProcessHangs

Spec == Init /\ [][Next]_vars

(* ---------------- exports from scenes of every category ---------------- *)

\* before an export: the scene holds the objects of Pre and the first j
\* objects that earlier imports brought in; the first k objects are selected
\* and the last selected one is active
ExportInit ==
    /\ \E j \in 0..MaxBatch : \E k \in 0..(MaxPre + j) :
          /\ objs = [o \in ObjIds |->
                      IF o <= MaxPre + j THEN [NewObject(o) EXCEPT !.sel = (o <= k)]
                      ELSE NoObject]
          /\ active = k
    /\ files = [fbx |-> "absent", script |-> FALSE, tmpdir |-> FALSE,
                tmpfbx |-> "absent", tmpscript |-> FALSE, target |-> "absent"]
    /\ op = NoOp
    /\ cfg = NoImportConfig
    /\ xcfg = NoExportConfig
    /\ ext = NoExt

ExportNext ==
    \/ ExportBegin
    \/ ExportResume
    \/ \E batchFound \in BOOLEAN : ScriptStart(batchFound)
    \/ Tick
    \/ \E out \in {"none", "empty", "valid"} : BatchExit(out)
    \/ \E out \in {"none", "partial"} : BatchTimeout(out)
    \/ \E rc \in {0, 2} : ProcessEnds(rc)
    \/ ProcessHangs

ExportSpec == ExportInit /\ [][ExportNext]_vars

(* ------------------------ vocabulary of the claims --------------------- *)

Done == op.pc = "done"

\* the import operation has returned after importing the interchange file
PipelineRan == op.kind = "import" /\ Done /\ op.consumed # "none"

\* ... and the filter pipeline ran to its end
PipelineCompleted == PipelineRan /\ op.result = "FINISHED"

\* the retention flag of a category; EMPTY and OTHER have none
Retained(c, t) ==
    CASE t = "MESH" -> c.models
      [] t = "LIGHT" -> c.lights
      [] t = "CAMERA" -> c.cameras
      [] t = "CURVE" -> c.splines
      [] t = "ARMATURE" -> c.armatures
      [] OTHER -> TRUE

Survivors == {o \in op.imported : objs[o].st = "live"}

RemovedFromScene == op.imported \ Survivors

AllRetained(c) ==
    /\ c.models /\ c.lights /\ c.cameras /\ c.splines /\ c.armatures
    /\ c.animations /\ c.materials

LastReport == op.reports[Len(op.reports)]

\* lines 722-767 run once more, on the survivors of the batch, under the
\* same configuration
Rerun ==
    IF Survivors = {}
    THEN [raised |-> FALSE, sc |-> DeselectAll(objs), removed |-> {}, partial |-> {}]
    ELSE FilterPipeline(objs, Survivors, cfg)

\* two scenes hold the same objects with the same data and transform
SameScene(a, b) ==
    \A o \in ObjIds :
        /\ a[o].st = b[o].st /\ a[o].anim = b[o].anim /\ a[o].mats = b[o].mats
        /\ a[o].rot = b[o].rot /\ a[o].scl = b[o].scl

BatchOfType(t) == {o \in op.imported : TypeOf(o) = t}

(* -------------------------------- C1 ----------------------------------- *)

\* C1: after an import has filtered its batch, a batch object is gone from
\* the scene exactly when the retention flag of its category is false
C1_RemovedIffNotRetained ==
    PipelineRan =>
        \A o \in op.imported : (o \in RemovedFromScene) <=> ~Retained(cfg, TypeOf(o))

(* -------------------------------- C2 ----------------------------------- *)

\* C2 as stated: with every flag of the configuration true, nothing is
\* removed, the survivors are the batch and no object is transformed
C2_AsClaimed ==
    (PipelineRan /\ AllRetained(cfg) /\ cfg.rotation /\ cfg.scale) =>
        /\ op.removed = {} /\ Survivors = op.imported
        /\ \A o \in op.imported : objs[o].rot = "orig" /\ objs[o].scl = "orig"

\* C2 amended: with the seven retention flags true nothing is removed, the
\* survivors are the batch with their data as imported, and an object is
\* rotated exactly when the rotation flag is set, scaled exactly when the
\* scale flag is set
C2_AllRetainedKeepsBatch ==
    (PipelineRan /\ AllRetained(cfg)) =>
        /\ op.result = "FINISHED"
        /\ op.removed = {} /\ Survivors = op.imported
        /\ \A o \in op.imported :
              /\ objs[o].anim = AnimOf(o) /\ objs[o].mats = MatsOf(o)
              /\ (objs[o].rot = "rot180") <=> cfg.rotation
              /\ (objs[o].scl = "s001") <=> cfg.scale
              /\ objs[o].rot \in {"orig", "rot180"} /\ objs[o].scl \in {"orig", "s001"}

C2_Witness ==
    /\ PipelineRan /\ AllRetained(cfg) /\ ~cfg.rotation /\ ~cfg.scale
    /\ Cardinality(op.imported) >= 3
    /\ \A o \in op.imported : objs[o].st = "live" /\ objs[o].rot = "orig"

(* -------------------------------- C3 ----------------------------------- *)

\* C3: an object of the batch whose category is retained stays in the scene;
\* a kept object keeps its animation data when animations are retained and
\* its material slots when materials are retained, and differs from what was
\* imported only by data the configuration clears and by the corrective
\* transform it asks for
C3_KeptObjectsKeepRetainedData ==
    PipelineRan =>
        \A o \in op.imported :
            /\ Retained(cfg, TypeOf(o)) => o \in Survivors
            /\ o \in Survivors =>
                  /\ cfg.animations => objs[o].anim = AnimOf(o)
                  /\ cfg.materials => objs[o].mats = MatsOf(o)
                  /\ objs[o].anim \in {AnimOf(o), FALSE}
                  /\ objs[o].mats \in {MatsOf(o), FALSE}
                  /\ objs[o].rot = IF cfg.rotation THEN "rot180" ELSE "orig"
                  /\ objs[o].scl = IF cfg.scale THEN "s001" ELSE "orig"

C3_Witness ==
    /\ PipelineCompleted /\ cfg.animations /\ ~cfg.materials /\ cfg.rotation
    /\ RemovedFromScene # {}
    /\ \E o \in Survivors : AnimOf(o) /\ objs[o].anim /\ MatsOf(o) /\ ~objs[o].mats

(* -------------------------------- C4 ----------------------------------- *)

\* C4: when animations are not retained and the pipeline has completed, no
\* survivor of the batch has animation data
C4_AnimationsCleared ==
    (PipelineCompleted /\ ~cfg.animations) => \A o \in Survivors : ~objs[o].anim

C4_Witness ==
    /\ PipelineCompleted /\ ~cfg.animations /\ RemovedFromScene # {}
    /\ \E o \in Survivors : AnimOf(o) /\ ~objs[o].anim

(* -------------------------------- C5 ----------------------------------- *)

\* C5: when materials are not retained and the pipeline has completed, no
\* survivor of the batch has a material slot
C5_MaterialsCleared ==
    (PipelineCompleted /\ ~cfg.materials) => \A o \in Survivors : ~objs[o].mats

C5_Witness ==
    /\ PipelineCompleted /\ ~cfg.materials /\ RemovedFromScene # {}
    /\ \E o \in Survivors : MatsOf(o) /\ ~objs[o].mats

(* -------------------------------- C6 ----------------------------------- *)

\* C6: once the external process has exited with a nonzero code, the
\* operation has spawned that one process only, has imported nothing from
\* the interchange file, and when it returns it returns CANCELLED with an
\* error report
C6_NonzeroExitFails ==
    (ext.st = "exited" /\ ext.rc # 0) =>
        /\ op.spawned = 1
        /\ op.consumed = "none" /\ op.imported = {}
        /\ \A o \in Pool : objs[o].st = "absent"
        /\ Done => op.result = "CANCELLED" /\ LastReport.level = "ERROR"

C6_Witness ==
    /\ Done /\ op.kind = "import" /\ ext.st = "exited" /\ ext.rc = 2
    /\ files.fbx = "stale" /\ op.result = "CANCELLED"

(* -------------------------------- C7 ----------------------------------- *)

\* C7: when an operation returns, the generated script and the interchange
\* file it created no longer exist
C7_TempFilesRemoved ==
    Done =>
        /\ ~files.script /\ files.fbx \notin {"fresh", "empty", "partial"}
        /\ ~files.tmpdir /\ ~files.tmpscript /\ files.tmpfbx = "absent"

(* -------------------------------- C8 ----------------------------------- *)

\* C8: when the interchange import adds no object, the import operation
\* reports a warning and leaves none of its temporary files
C8_EmptyBatchWarns ==
    (PipelineRan /\ op.imported = {}) =>
        /\ LastReport.level = "WARNING"
        /\ ~files.script /\ files.fbx = "absent"

(* -------------------------------- C9 ----------------------------------- *)

\* C9: an operation started with an unset or nonexistent executable, or with
\* a missing or invalid input file, returns CANCELLED without spawning a
\* process
C9_PreconditionsBeforeSpawn ==
    (/\ op.kind # "none"
     /\ \/ op.path \in {"empty", "not_max", "max_missing"}
        \/ op.exe # "exists") =>
        op.spawned = 0 /\ Done /\ op.result = "CANCELLED"

(* -------------------------------- C10 ---------------------------------- *)

\* C10: an operation that has not returned can always take a further step:
\* it never waits for ever on the process it launched
C10_NeverBlocksForever == Done \/ ENABLED Next

(* -------------------------------- C11 ---------------------------------- *)

C12_SecondRunIsNoOp ==
    PipelineRan =>
        \A q \in {Rerun} : ~q.raised /\ q.removed = {} /\ SameScene(q.sc, objs)

(* -------------------------------- C13 ---------------------------------- *)

\* C13: whatever categories the configuration deletes, after an import run
\* with the corrective rotation (scale) enabled every survivor has the fixed
\* rotation (the fixed scale), and a second run on the survivors leaves
\* exactly those values on every object it keeps
C13_TransformAppliedOnce ==
    PipelineRan =>
        \A q \in {Rerun} :
            \A o \in Survivors :
                /\ cfg.rotation =>
                      /\ objs[o].rot = "rot180"
                      /\ q.sc[o].st = "live" => q.sc[o].rot = "rot180"
                /\ cfg.scale =>
                      /\ objs[o].scl = "s001"
                      /\ q.sc[o].st = "live" => q.sc[o].scl = "s001"

C13_Witness ==
    /\ PipelineRan /\ cfg.rotation /\ cfg.scale /\ ~cfg.models
    /\ BatchOfType("MESH") # {} /\ BatchOfType("MESH") \subseteq RemovedFromScene
    /\ Cardinality(Survivors) >= 2
    /\ \A o \in Survivors : objs[o].rot = "rot180" /\ objs[o].scl = "s001"

(* -------------------------------- C14 ---------------------------------- *)

\* the configuration of the scenario: lights are the one category not
\* retained, the rotation is on and the scale is off
LightsOff(c) ==
    /\ c.models /\ ~c.lights /\ c.cameras /\ c.splines /\ c.armatures
    /\ c.rotation /\ ~c.scale

\* C14: under that configuration the import finishes, the removed objects
\* are exactly the lights of the batch, the survivors are exactly its other
\* objects, and every survivor is rotated by the half turn and keeps its scale
C14_LightsRemovedOthersRotated ==
    (PipelineRan /\ LightsOff(cfg)) =>
        /\ op.result = "FINISHED"
        /\ op.removed = BatchOfType("LIGHT")
        /\ RemovedFromScene = BatchOfType("LIGHT")
        /\ Survivors = op.imported \ BatchOfType("LIGHT")
        /\ \A o \in Survivors : objs[o].rot = "rot180" /\ objs[o].scl = "orig"

C14_Witness ==
    /\ PipelineRan /\ LightsOff(cfg)
    /\ {TypeOf(o) : o \in op.imported} = {"MESH", "LIGHT", "CAMERA"}
    /\ Cardinality(op.imported) = 3
    /\ {TypeOf(o) : o \in Survivors} = {"MESH", "CAMERA"}
    /\ \A o \in Survivors : objs[o].rot = "rot180" /\ objs[o].scl = "orig"

(* -------------------------------- C15 ---------------------------------- *)

\* C15: when an import has finished, the objects selected in the scene are
\* exactly the survivors of its batch
C15_SurvivorsSelected ==
    PipelineCompleted => SelectedObjects(objs) = Survivors

(* -------------------------------- C16 ---------------------------------- *)

\* C16: in the step that imports the interchange file, the import batch is
\* exactly the set of objects that the step brought into being, and holds no
\* object that was in the scene before the step
C16_BatchIsSceneDifference ==
    [][op'.consumed # op.consumed =>
          /\ op'.imported =
                {o \in ObjIds : objs[o].st = "absent" /\ objs'[o].st # "absent"}
          /\ op'.imported \cap SceneObjects(objs) = {}]_vars

C16_Witness ==
    /\ PipelineRan /\ Cardinality(op.imported) >= 2 /\ op.imported # Pool
    /\ \A o \in Pre : objs[o].st = "live" /\ o \notin op.imported

(* -------------------------------- C17 ---------------------------------- *)

\* C17: when armatures and animations are retained and models are not, every
\* armature of the batch stays in the scene with its animation data, and the
\* meshes of the batch are gone
C17_ArmaturesKeptWithoutModels ==
    (PipelineRan /\ cfg.armatures /\ ~cfg.models /\ cfg.animations) =>
        /\ BatchOfType("ARMATURE") \subseteq Survivors
        /\ BatchOfType("ARMATURE") \cap op.removed = {}
        /\ \A o \in BatchOfType("ARMATURE") : objs[o].anim = AnimOf(o)
        /\ BatchOfType("MESH") \cap Survivors = {}

C17_Witness ==
    /\ PipelineRan /\ cfg.armatures /\ ~cfg.models /\ cfg.animations
    /\ BatchOfType("MESH") # {} /\ BatchOfType("MESH") \subseteq RemovedFromScene
    /\ BatchOfType("ARMATURE") # {} /\ BatchOfType("ARMATURE") \subseteq Survivors

(* -------------------------------- C18 ---------------------------------- *)

\* C18: once the interchange file has been imported, no filtering step makes
\* the import fail: the operation finishes, whatever categories are deleted
C18_FilteringNeverAborts ==
    PipelineRan => op.result = "FINISHED" /\ LastReport.level = "INFO"

(* -------------------------------- C19 ---------------------------------- *)

\* C19: an operation that returns CANCELLED has reported exactly one
\* message, and that message points to the log file
C19_OneMessageWithLogPointer ==
    (Done /\ op.result = "CANCELLED") => Len(op.reports) = 1 /\ LastReport.log

(* -------------------------------- C20 ---------------------------------- *)

\* the objects selected when the export started that match its filters
MatchingSelection == {o \in op.origSel : ShouldSelect(o, xcfg)}

\* C20: with Selection Only enabled and a selection that holds a matching
\* object, the export does not cancel with the no-match warning, and what it
\* hands to the interchange export is the matching part of that selection
C20_SelectionOnlyExportsSelection ==
    (op.kind = "export" /\ Done /\ xcfg.selection /\ MatchingSelection # {}) =>
        /\ ~(op.result = "CANCELLED" /\ LastReport.level = "WARNING")
        /\ op.exported \in {{}, MatchingSelection}

(* -------------------------------- C21 ---------------------------------- *)

\* C21: the interchange file an import loads into the scene was written by
\* the conversion of that same operation, never left by an earlier one
C21_ConsumedFileIsFresh ==
    (op.kind = "import" /\ op.consumed # "none") => op.consumed = "fresh"

(* -------------------------------- C22 ---------------------------------- *)

\* C22: whatever the retention configuration, an object that was in the
\* scene before an import is still in the scene during and after it, with
\* the animation data, material slots, rotation and scale it had
C22_ExistingObjectsUntouched ==
    op.kind = "import" =>
        \A o \in Pre :
            /\ objs[o].st = "live"
            /\ objs[o].anim = AnimOf(o) /\ objs[o].mats = MatsOf(o)
            /\ objs[o].rot = "orig" /\ objs[o].scl = "orig"

C22_Witness ==
    /\ PipelineCompleted
    /\ ~cfg.models /\ ~cfg.animations /\ ~cfg.materials /\ cfg.rotation /\ cfg.scale
    /\ BatchOfType("MESH") # {} /\ BatchOfType("MESH") \subseteq RemovedFromScene
    /\ \E o \in Survivors : AnimOf(o) /\ ~objs[o].anim /\ objs[o].rot = "rot180"
    /\ \E o \in Pre : /\ TypeOf(o) = "MESH" /\ objs[o].st = "live"
                       /\ objs[o].anim /\ objs[o].mats /\ objs[o].rot = "orig"

(* -------------------------------- C23 ---------------------------------- *)

\* an export that got past the checks of its file path and executable
ExportStarted == op.kind = "export" /\ op.path = "given" /\ op.exe = "exists"

\* C23: when an export that got past its precondition checks returns, the
\* selected objects and the active object are those of its start
C23_ExportRestoresSelection ==
    (ExportStarted /\ Done) =>
        SelectedObjects(objs) = op.origSel /\ active = op.origActive

(* -------------------------------- C24 ---------------------------------- *)

\* the objects of the scene the export filters let through
FilterMatches ==
    {o \in SceneObjects(objs) :
        \/ TypeOf(o) = "MESH" /\ xcfg.models
        \/ TypeOf(o) = "LIGHT" /\ xcfg.lights
        \/ TypeOf(o) = "CAMERA" /\ xcfg.cameras
        \/ TypeOf(o) = "CURVE" /\ xcfg.splines
        \/ TypeOf(o) = "ARMATURE" /\ (xcfg.models \/ xcfg.animations)}

NoMatch ==
    IF xcfg.selection THEN MatchingSelection = {} ELSE FilterMatches = {}

\* C25: an export whose filters no object passes returns CANCELLED with one
\* warning; it has exported nothing to an interchange file, has started no
\* process, and no target file exists or is reported
C25_NoMatchCancelsBeforeExport ==
    (ExportStarted /\ NoMatch) =>
        /\ Done /\ op.result = "CANCELLED"
        /\ Len(op.reports) = 1 /\ LastReport.level = "WARNING"
        /\ op.exported = {} /\ op.spawned = 0 /\ ext.st = "none"
        /\ files.tmpfbx = "absent" /\ ~files.tmpscript /\ files.target = "absent"

C25_Witness ==
    /\ ExportStarted /\ Done /\ ~xcfg.selection /\ FilterMatches = {}
    /\ xcfg.cameras /\ xcfg.splines
    /\ Cardinality(SceneObjects(objs)) >= 2
    /\ op.result = "CANCELLED" /\ LastReport.level = "WARNING"

(* -------------------------------- C26 ---------------------------------- *)

\* C26: the output path of an export that has started its conversion ends
\* in '.max', in whatever letter case, and not in '.max.max'
C26_SingleMaxExtension ==
    (op.kind = "export" /\ op.spawned = 1) =>
        EndsWithMax(op.final) /\ ~EndsWithMaxMax(op.final)

====
